---- MODULE Spec2Model ----
(***************************************************************************)
(* Model of pcbmode/utils/footprint.py: class Footprint expands a          *)
(* footprint definition (pins, pads, layout) into per-sheet, per-layer     *)
(* ordered lists of shapes.                                                *)
(*                                                                         *)
(* Python dicts are functions whose DOMAIN is the set of keys present, so  *)
(* d.get(k, default) and "k in d" are modelled exactly.  Values whose      *)
(* Python type matters (list / dict / None / int, list / Point) carry a    *)
(* tag.  A Footprint instance is built in steps: one step per pin, one for *)
(* the pours, one per sheet of _process_shapes, one for the assembly.      *)
(***************************************************************************)
EXTENDS Integers, Sequences, FiniteSets, TLC

(* ------------------------------ bounds --------------------------------- *)
MaxPins == 2
MaxPadShapes == 2

(* --------------------------- python values ----------------------------- *)
EmptyDict == [x \in {} |-> TRUE]

Get(d, key, default) == IF key \in DOMAIN d THEN d[key] ELSE default

Put(d, key, v) == [x \in DOMAIN d \cup {key} |-> IF x = key THEN v ELSE d[x]]

PyNone == [t |-> "None"]
PyInt(n) == [t |-> "int", n |-> n]
PyList(s) == [t |-> "list", v |-> s]
PyDict(d) == [t |-> "dict", d |-> d]

PyTrue == "true"
PyFalse == "false"
StrTrue == "'True'"

\* Python truthiness of a tagged value
Truthy(v) ==
    CASE v.t = "None" -> FALSE
      [] v.t = "int"  -> v.n # 0
      [] v.t = "list" -> v.v # <<>>
      [] v.t = "dict" -> DOMAIN v.d # {}

\* Python truthiness of a mirror value (True, False or the string "True")
TruthyFlag(v) == v # PyFalse

\* "for x in v" raises TypeError unless v is a sequence
Iterable(v) == v.t = "list"

\* a [x, y] list as found in a parsed footprint document
List2(x, y) == [cls |-> "list", x |-> x, y |-> y]

\* Point(...) of pcbmode.utils.point, built from a list
Point(l) == [cls |-> "Point", x |-> l.x, y |-> l.y]

\* Point.__add__ : a new Point
PointAdd(p, q) == [cls |-> "Point", x |-> p.x + q.x, y |-> p.y + q.y]

\* config.cfg["distances"]
cfg ==
    [soldermask  |-> ("path-scale" :> 2 @@ "rect-buffer" :> 1 @@ "circle-buffer" :> 3),
     solderpaste |-> ("path-scale" :> 3 @@ "rect-buffer" :> 2 @@ "circle-buffer" :> 5)]

\* the physical layers the token "internal" stands for
InnerLayers == <<"internal-1">>

\* utils.getExtendedLayerList
RECURSIVE getExtendedLayerList(_)
getExtendedLayerList(layers) ==
    IF layers = <<>> THEN <<>>
    ELSE (IF Head(layers) = "internal" THEN InnerLayers ELSE <<Head(layers)>>)
         \o getExtendedLayerList(Tail(layers))

DimKeys == {"width", "height", "diameter"}

NoLabel == "<none>"

\* Shape(shape_dict): the instance reads the declaration once, when built
Shape(d) ==
    [type     |-> Get(d, "type", "<none>"),
     location |-> LET l == Get(d, "location", List2(0, 0)) IN <<l.x, l.y>>,
     rotate   |-> Get(d, "rotate", 0),
     scale    |-> Get(d, "scale", 1),
     dims     |-> [key \in DOMAIN d \cap DimKeys |-> d[key]],
     mirror   |-> TruthyFlag(Get(d, "mirror", PyFalse)),
     label    |-> NoLabel,
     origin   |-> <<0, 0, 0, 0>>]

\* Shape.set_label
set_label(shape, label) == [shape EXCEPT !.label = label]

\* Shape.getScale
getScale(shape) == shape.scale

\* Shape.get_type
get_type(shape) == shape.type

\* history annotation: which pass / pin / declaration / override built the shape
Tag(shape, origin) == [shape EXCEPT !.origin = origin]

\* the attributes of a shape, without the history annotation
Attrs(shape) == [key \in DOMAIN shape \ {"origin"} |-> shape[key]]

SheetNames ==
    {"conductor", "pours", "soldermask", "silkscreen", "assembly", "solderpaste", "drills"}

\* self._shapes as __init__ creates it
EmptyShapes == [s \in SheetNames |-> EmptyDict]

(* ------------------------- the shape accumulator ----------------------- *)
\* a variant that puts the new shape in front of the bucket
AddShape_Prepend(coll, sheet, layer, shape) ==
    [coll EXCEPT ![sheet] =
        IF layer \in DOMAIN @
        THEN [@ EXCEPT ![layer] = <<shape>> \o @]
        ELSE Put(@, layer, <<shape>>)]

\* "if layer in self._shapes[sheet]: ...append(shape) else: ... = [shape]"
AddShape(coll, sheet, layer, shape) ==
    [coll EXCEPT ![sheet] =
        IF layer \in DOMAIN @
        THEN [@ EXCEPT ![layer] = Append(@, shape)]
        ELSE Put(@, layer, <<shape>>)]

(* ------------------------------ _process_pins -------------------------- *)
\* a variant that reads the pad with pads_dict.get(pad_name, {})
LookupPad_Default(pads_dict, pad_name) ==
    [ok |-> TRUE, pad |-> Get(pads_dict, pad_name, EmptyDict)]

\* pads_dict[pad_name]: a KeyError when the pad is not in the table
LookupPad(pads_dict, pad_name) ==
    IF pad_name \in DOMAIN pads_dict
    THEN [ok |-> TRUE, pad |-> pads_dict[pad_name]]
    ELSE [ok |-> FALSE, pad |-> EmptyDict]

\* a variant that reads the soldermask override for both sheets
SheetOverride_Mask(shape_dict, sheet) == Get(shape_dict, "soldermask", PyNone)

\* shape_dict.get(sheet, None)
SheetOverride(shape_dict, sheet) == Get(shape_dict, sheet, PyNone)

\* a variant that grows a rect in width only
DefaultSdict_WidthOnly(shape_dict, pad_shape, sheet) ==
    LET sdict      == shape_dict
        shape_type == pad_shape.type
        cfg_def    == cfg[sheet]
    IN  CASE shape_type = "path" ->
               Put(sdict, "scale", pad_shape.scale * cfg_def["path-scale"])
          [] shape_type = "rect" ->
               Put(sdict, "width", sdict["width"] + cfg_def["rect-buffer"])
          [] shape_type = "circle" ->
               Put(sdict, "diameter", sdict["diameter"] + cfg_def["circle-buffer"])
          [] OTHER -> sdict

\* the default soldermask / solderpaste declaration of a pad shape
DefaultSdict(shape_dict, pad_shape, sheet) ==
    LET sdict      == shape_dict
        shape_type == get_type(pad_shape)
        cfg_def    == cfg[sheet]
    IN  CASE shape_type = "path" ->
               Put(sdict, "scale", getScale(pad_shape) * cfg_def["path-scale"])
          [] shape_type = "rect" ->
               Put(Put(sdict, "width", sdict["width"] + cfg_def["rect-buffer"]),
                   "height", sdict["height"] + cfg_def["rect-buffer"])
          [] shape_type = "circle" ->
               Put(sdict, "diameter", sdict["diameter"] + cfg_def["circle-buffer"])
          [] OTHER -> sdict

\* one custom soldermask / solderpaste declaration.  Point.rotate() acts on
\* a local Point that is not read again, so it leaves no trace here.
CustomSdict(sdict_, ctx) ==
    LET s1 == Put(sdict_, "rotate", Get(sdict_, "rotate", 0) + ctx.pin_rotate)
    IN  Put(s1, "location", PointAdd(ctx.shape_loc_p, ctx.pin_loc_p))

RECURSIVE CustomLoop(_, _, _, _, _, _)
CustomLoop(coll, sheet, layer, sdict_list, m, ctx) ==
    IF m > Len(sdict_list) THEN coll
    ELSE CustomLoop(
            AddShape(coll, sheet, layer,
                     Tag(Shape(CustomSdict(sdict_list[m], ctx)),
                         <<1, ctx.pin, ctx.decl, m>>)),
            sheet, layer, sdict_list, m + 1, ctx)

\* the body of "for sheet in [soldermask, solderpaste]" for one sheet
ResolveSheet(coll, sheet, layer, shape_dict, pad_shape, ctx) ==
    LET sdict_list == SheetOverride(shape_dict, sheet)
    IN  IF sdict_list = PyNone
        THEN AddShape(coll, sheet, layer,
                      Tag(Shape(DefaultSdict(shape_dict, pad_shape, sheet)),
                          <<1, ctx.pin, ctx.decl, 0>>))
        ELSE IF sdict_list = PyDict(EmptyDict) \/ sdict_list = PyList(<<>>)
        THEN coll
        ELSE CustomLoop(coll, sheet, layer,
                        IF sdict_list.t = "dict" THEN <<sdict_list.d>> ELSE sdict_list.v,
                        1, ctx)

\* the body of "for layer in layers"
PlaceOnLayer(coll, layer, shape_dict, ctx) ==
    LET shape0    == Shape(shape_dict)
        pad_shape == IF Get(ctx.pin_dict, "show-label", TRUE) = TRUE
                     THEN set_label(shape0, Get(ctx.pin_dict, "label", ctx.pin_name))
                     ELSE shape0
        c1 == AddShape(coll, "conductor", layer,
                       Tag(pad_shape, <<1, ctx.pin, ctx.decl, 0>>))
        c2 == ResolveSheet(c1, "soldermask", layer, shape_dict, pad_shape, ctx)
    IN  ResolveSheet(c2, "solderpaste", layer, shape_dict, pad_shape, ctx)

RECURSIVE LayerLoop(_, _, _, _, _)
LayerLoop(coll, layers, n, shape_dict, ctx) ==
    IF n > Len(layers) THEN coll
    ELSE LayerLoop(PlaceOnLayer(coll, layers[n], shape_dict, ctx),
                   layers, n + 1, shape_dict, ctx)

\* lines 82-93: the pin's placement is written into the pad's declaration
MergePlacement(shape_dict, pin_loc_p, pin_rotate) ==
    LET shape_loc   == Get(shape_dict, "location", List2(0, 0))
        shape_loc_p == IF shape_loc.cls = "Point" THEN shape_loc ELSE Point(shape_loc)
        d1 == Put(shape_dict, "location", PointAdd(pin_loc_p, shape_loc_p))
    IN  [shape_loc_p |-> shape_loc_p,
         dict        |-> Put(d1, "rotate", Get(d1, "rotate", 0) + pin_rotate)]

\* "for shape_dict in shapes": st = [coll, shapes], the accumulator and the
\* pad's list of declarations, both updated as the loop goes
RECURSIVE ShapeLoop(_, _, _)
ShapeLoop(st, j, ctx) ==
    IF j > Len(st.shapes) THEN st
    ELSE LET shape_dict == st.shapes[j]
             layers == getExtendedLayerList(Get(shape_dict, "layers", <<"top">>))
             mp     == MergePlacement(shape_dict, ctx.pin_loc_p, ctx.pin_rotate)
             ctx2   == [pin_loc_p   |-> ctx.pin_loc_p,
                        pin_rotate  |-> ctx.pin_rotate,
                        pin_dict    |-> ctx.pin_dict,
                        pin_name    |-> ctx.pin_name,
                        pin         |-> ctx.pin,
                        decl        |-> j,
                        shape_loc_p |-> mp.shape_loc_p]
         IN  ShapeLoop([coll   |-> LayerLoop(st.coll, layers, 1, mp.dict, ctx2),
                        shapes |-> [st.shapes EXCEPT ![j] = mp.dict]],
                       j + 1, ctx)

\* one drill of the pad
DrillShape(drill_dict0, pin_loc_p) ==
    LET d1 == Put(drill_dict0, "type", Get(drill_dict0, "type", "drill"))
        drill_loc_p == Point(Get(d1, "location", List2(0, 0)))
    IN  Shape(Put(d1, "location", PointAdd(drill_loc_p, pin_loc_p)))

RECURSIVE DrillLoop(_, _, _, _)
DrillLoop(coll, drills, j, ctx) ==
    IF j > Len(drills) THEN coll
    ELSE DrillLoop(AddShape(coll, "drills", "top",
                            Tag(DrillShape(drills[j], ctx.pin_loc_p),
                                <<1, ctx.pin, j, 0>>)),
                   drills, j + 1, ctx)

\* one iteration of "for pin_name in pins_dict" once the pad is found:
\* [coll, pad], the accumulator and the pad as the iteration leaves them
PinBody(coll, pin, n, pad_dict) ==
    LET pin_dict == pin.layout
        ctx == [pin_loc_p  |-> Point(Get(pin_dict, "location", List2(0, 0))),
                pin_rotate |-> Get(pin_dict, "rotate", 0),
                pin_dict   |-> pin_dict,
                pin_name   |-> pin.name,
                pin        |-> n]
        st  == ShapeLoop([coll |-> coll, shapes |-> Get(pad_dict, "shapes", <<>>)], 1, ctx)
    IN  [coll |-> DrillLoop(st.coll, Get(pad_dict, "drills", <<>>), 1, ctx),
         pad  |-> IF "shapes" \in DOMAIN pad_dict
                  THEN [pad_dict EXCEPT !["shapes"] = st.shapes]
                  ELSE pad_dict]

(* ------------- _process_pours, _process_shapes, _process_assembly ------ *)
\* self._footprint["layout"][section]["shapes"] inside try / except
SectionShapes(fp, section) ==
    IF /\ "layout" \in DOMAIN fp
       /\ section \in DOMAIN fp["layout"]
       /\ "shapes" \in DOMAIN fp["layout"][section]
    THEN [found |-> TRUE, shapes |-> fp["layout"][section]["shapes"]]
    ELSE [found |-> FALSE, shapes |-> PyNone]

\* shape_dict.get(key) or ["top"]
LayersOr(shape_dict, key) ==
    LET l == Get(shape_dict, key, <<>>) IN IF l = <<>> THEN <<"top">> ELSE l

RECURSIVE PlainLayerLoop(_, _, _, _, _, _)
PlainLayerLoop(coll, sheet, layers, n, shape_dict, origin) ==
    IF n > Len(layers) THEN coll
    ELSE PlainLayerLoop(AddShape(coll, sheet, layers[n], Tag(Shape(shape_dict), origin)),
                        sheet, layers, n + 1, shape_dict, origin)

\* "for shape_dict in shapes" of _process_pours and _process_assembly_shapes
RECURSIVE PlainLoop(_, _, _, _, _, _)
PlainLoop(coll, sheet, shapes, j, layer_key, pass) ==
    IF j > Len(shapes) THEN coll
    ELSE PlainLoop(
            PlainLayerLoop(coll, sheet,
                           getExtendedLayerList(LayersOr(shapes[j], layer_key)),
                           1, shapes[j], <<pass, j, 0, 0>>),
            sheet, shapes, j + 1, layer_key, pass)

\* lines 235-237: text on the bottom layer
MirrorDefault(shape_dict, layer) ==
    IF layer = "bottom" /\ shape_dict["type"] = "text"
    THEN Put(shape_dict, "mirror",
             IF "mirror" \in DOMAIN shape_dict /\ TruthyFlag(shape_dict["mirror"])
             THEN shape_dict["mirror"] ELSE StrTrue)
    ELSE shape_dict

\* "for layer in layers" of _process_shapes: st = [coll, dict], the
\* accumulator and the declaration, both updated as the loop goes
RECURSIVE MirrorLayerLoop(_, _, _, _, _)
MirrorLayerLoop(st, sheet, layers, n, origin) ==
    IF n > Len(layers) THEN st
    ELSE LET d == MirrorDefault(st.dict, layers[n])
         IN  MirrorLayerLoop(
                [coll |-> AddShape(st.coll, sheet, layers[n], Tag(Shape(d), origin)),
                 dict |-> d],
                sheet, layers, n + 1, origin)

\* "for shape_dict in shapes" of _process_shapes: st = [coll, shapes]
RECURSIVE SheetLoop(_, _, _)
SheetLoop(st, sheet, j) ==
    IF j > Len(st.shapes) THEN st
    ELSE LET r == MirrorLayerLoop([coll |-> st.coll, dict |-> st.shapes[j]], sheet,
                                  getExtendedLayerList(LayersOr(st.shapes[j], "layers")),
                                  1, <<3, j, 0, 0>>)
         IN  SheetLoop([coll |-> r.coll, shapes |-> [st.shapes EXCEPT ![j] = r.dict]],
                       sheet, j + 1)

\* the sheets _process_shapes walks, in its order
sheets == <<"conductor", "silkscreen", "soldermask">>

(* -------------------------------- state -------------------------------- *)
VARIABLES
    defs,     \* the caller's footprint definitions (mutable dicts), by object
    orig,     \* history: defs as the caller first handed them over
    obj,      \* obj[i]: the definition Footprint instance i is built from
    pc,       \* pc[i]: where __init__ of instance i stands
    k,        \* k[i]: index of the next pin, or of the next sheet
    shapes,   \* shapes[i]: self._shapes of instance i
    err,      \* err[i]: the exception __init__ of instance i raised
    varied    \* history: the override sheet in which the two definitions differ

vars == <<defs, orig, obj, pc, k, shapes, err, varied>>

Instances == {1, 2}

PinsOf(fp) == Get(fp, "pins", <<>>)
PadsOf(fp) == Get(fp, "pads", EmptyDict)

\* __init__ up to its first pass; constructions run one after the other
Start(i) ==
    /\ pc[i] = "idle"
    /\ i > 1 => pc[i - 1] \in {"done", "failed"}
    /\ shapes' = [shapes EXCEPT ![i] = EmptyShapes]
    /\ pc' = [pc EXCEPT ![i] = IF PinsOf(defs[obj[i]]) = <<>> THEN "pours" ELSE "pins"]
    /\ k' = [k EXCEPT ![i] = 1]
    /\ UNCHANGED <<defs, orig, obj, err, varied>>

\* one iteration of the loop over the pins
ProcessPin(i) ==
    /\ pc[i] = "pins"
    /\ LET fp   == defs[obj[i]]
           pin  == PinsOf(fp)[k[i]]
           look == LookupPad(PadsOf(fp), pin.layout["pad"])
           r    == PinBody(shapes[i], pin, k[i], look.pad)
       IN  IF ~look.ok
           THEN /\ pc' = [pc EXCEPT ![i] = "failed"]
                /\ err' = [err EXCEPT ![i] = "KeyError"]
                /\ UNCHANGED <<defs, shapes, k>>
           ELSE /\ shapes' = [shapes EXCEPT ![i] = r.coll]
                /\ defs' = [defs EXCEPT ![obj[i]] =
                              IF pin.layout["pad"] \in DOMAIN PadsOf(fp)
                              THEN [fp EXCEPT !["pads"][pin.layout["pad"]] = r.pad]
                              ELSE fp]
                /\ IF k[i] = Len(PinsOf(fp))
                   THEN /\ pc' = [pc EXCEPT ![i] = "pours"]
                        /\ k' = [k EXCEPT ![i] = 1]
                   ELSE /\ k' = [k EXCEPT ![i] = k[i] + 1]
                        /\ pc' = pc
                /\ err' = err
    /\ UNCHANGED <<orig, obj, varied>>

\* _process_pours
ProcessPours(i) ==
    /\ pc[i] = "pours"
    /\ LET sec == SectionShapes(defs[obj[i]], "pours")
       IN  IF ~sec.found
           THEN /\ pc' = [pc EXCEPT ![i] = "shapes"]
                /\ UNCHANGED <<shapes, err>>
           ELSE IF ~Iterable(sec.shapes)
           THEN /\ pc' = [pc EXCEPT ![i] = "failed"]
                /\ err' = [err EXCEPT ![i] = "TypeError"]
                /\ UNCHANGED shapes
           ELSE /\ shapes' = [shapes EXCEPT ![i] =
                                PlainLoop(@, "pours", sec.shapes.v, 1, "layers", 2)]
                /\ pc' = [pc EXCEPT ![i] = "shapes"]
                /\ err' = err
    /\ UNCHANGED <<defs, orig, obj, k, varied>>

\* one iteration of "for sheet in sheets" of _process_shapes
ProcessSheet(i) ==
    /\ pc[i] = "shapes"
    /\ LET sheet == sheets[k[i]]
           fp    == defs[obj[i]]
           sec   == SectionShapes(fp, sheet)
           list  == IF sec.found /\ Truthy(sec.shapes) THEN sec.shapes ELSE PyList(<<>>)
           r     == SheetLoop([coll |-> shapes[i], shapes |-> list.v], sheet, 1)
       IN  IF ~Iterable(list)
           THEN /\ pc' = [pc EXCEPT ![i] = "failed"]
                /\ err' = [err EXCEPT ![i] = "TypeError"]
                /\ UNCHANGED <<defs, shapes, k>>
           ELSE /\ shapes' = [shapes EXCEPT ![i] = r.coll]
                /\ defs' = [defs EXCEPT ![obj[i]] =
                              IF sec.found /\ Truthy(sec.shapes)
                              THEN [fp EXCEPT !["layout"][sheet]["shapes"] = PyList(r.shapes)]
                              ELSE fp]
                /\ IF k[i] = Len(sheets)
                   THEN /\ pc' = [pc EXCEPT ![i] = "assembly"]
                        /\ k' = [k EXCEPT ![i] = 1]
                   ELSE /\ k' = [k EXCEPT ![i] = k[i] + 1]
                        /\ pc' = pc
                /\ err' = err
    /\ UNCHANGED <<orig, obj, varied>>

\* _process_assembly_shapes, then __init__ returns the instance
ProcessAssembly(i) ==
    /\ pc[i] = "assembly"
    /\ LET sec == SectionShapes(defs[obj[i]], "assembly")
       IN  IF ~sec.found
           THEN /\ pc' = [pc EXCEPT ![i] = "done"]
                /\ UNCHANGED <<shapes, err>>
           ELSE IF ~Iterable(sec.shapes)
           THEN /\ pc' = [pc EXCEPT ![i] = "failed"]
                /\ err' = [err EXCEPT ![i] = "TypeError"]
                /\ UNCHANGED shapes
           ELSE /\ shapes' = [shapes EXCEPT ![i] =
                                PlainLoop(@, "assembly", sec.shapes.v, 1, "layer", 4)]
                /\ pc' = [pc EXCEPT ![i] = "done"]
                /\ err' = err
    /\ UNCHANGED <<defs, orig, obj, k, varied>>

Next ==
    \E i \in Instances :
        \/ Start(i)
        \/ ProcessPin(i)
        \/ ProcessPours(i)
        \/ ProcessSheet(i)
        \/ ProcessAssembly(i)

\* Footprint.get_shapes(): the caller holds the instance only once __init__ returned
Returned(i) == pc[i] = "done"
get_shapes(i) == shapes[i]

(* ------------------- the footprint definitions explored ---------------- *)
SeqsUpTo(S, n) == UNION {[1..m -> S] : m \in 0..n}

PinNames == <<"P1", "P2", "P3", "P4">>

\* pin layouts: placed and rotated, all defaults with a label, on a second
\* pad without a label, and one naming a pad that is not in the table
PinLayouts ==
    {[location |-> List2(10, 5), rotate |-> 90, pad |-> "PAD1"],
     [pad |-> "PAD1", label |-> "GND"],
     [location |-> List2(3, 0), pad |-> "PAD2"] @@ ("show-label" :> FALSE),
     [location |-> List2(1, 1), pad |-> "NOPAD"]}

\* pins_dict: an ordered mapping from pin name to {"layout": ...}
MkPins(layouts) ==
    [n \in 1..Len(layouts) |-> [name |-> PinNames[n], layout |-> layouts[n]]]

MaskA == [type |-> "circle", diameter |-> 1, location |-> List2(7, 7), rotate |-> 5]
MaskB == [type |-> "rect", width |-> 5, height |-> 5]

\* pad shape declarations: every shape type, with and without location,
\* rotation, layers, and every kind of soldermask / solderpaste override
PadShapeDecls ==
    {[type |-> "rect", width |-> 2, height |-> 3, location |-> List2(1, 2),
      rotate |-> 10, layers |-> <<"top", "bottom">>],
     [type |-> "circle", diameter |-> 4, soldermask |-> PyList(<<>>)],
     [type |-> "path", scale |-> 2, layers |-> <<"bottom">>,
      solderpaste |-> PyDict(EmptyDict)],
     [type |-> "text", layers |-> <<"internal">>, location |-> List2(0, 1),
      soldermask |-> PyList(<<MaskA, MaskB>>)]}

PadTables ==
    {[PAD1 |-> [shapes |-> sh,
                drills |-> <<[diameter |-> 1],
                             [type |-> "hole", location |-> List2(1, 0)]>>],
      PAD2 |-> [shapes |-> <<[type |-> "path", solderpaste |-> PyDict(MaskA)]>>]] :
        sh \in SeqsUpTo(PadShapeDecls, MaxPadShapes) \ {<<>>}}

TextDecls ==
    {[type |-> "text"] @@ m @@ l :
        m \in {EmptyDict, [mirror |-> PyTrue], [mirror |-> PyFalse]},
        l \in {EmptyDict, [layers |-> <<"bottom">>], [layers |-> <<"top", "bottom">>],
               [layers |-> <<"bottom", "top">>]}}

Absent == {EmptyDict}

PoursOptions ==
    Absent \cup
    {[pours |-> x] : x \in {EmptyDict, [shapes |-> PyNone],
                            [shapes |-> PyList(<<[type |-> "path",
                                                  layers |-> <<"top", "bottom">>]>>)]}}

ConductorOptions ==
    Absent \cup
    {[conductor |-> x] : x \in {[shapes |-> PyNone],
                                [shapes |-> PyList(<<[type |-> "rect", width |-> 1,
                                                      height |-> 1]>>)]}}

SilkscreenOptions ==
    Absent \cup
    {[silkscreen |-> [shapes |-> PyInt(5)]]} \cup
    {[silkscreen |-> [shapes |-> PyList(<<d>>)]] : d \in TextDecls}

SoldermaskOptions ==
    Absent \cup
    {[soldermask |-> [shapes |-> PyList(<<[type |-> "text", layers |-> <<"bottom", "top">>],
                                          [type |-> "circle", diameter |-> 9]>>)]]}

AssemblyOptions ==
    Absent \cup
    {[assembly |-> x] : x \in {[shapes |-> PyNone],
                               [shapes |-> PyList(<<[type |-> "rect",
                                                     layer |-> <<"bottom">>]>>)]}}

Layouts ==
    {p @@ c @@ sk @@ a :
        p \in PoursOptions, c \in ConductorOptions, sk \in SilkscreenOptions,
        a \in AssemblyOptions}
    \cup SoldermaskOptions

\* a layout with shapes on every sheet the pins also write to
PlainLayout ==
    [conductor  |-> [shapes |-> PyList(<<[type |-> "rect", width |-> 1, height |-> 1],
                                         [type |-> "circle", diameter |-> 1,
                                          layers |-> <<"bottom", "internal">>]>>)],
     soldermask |-> [shapes |-> PyList(<<[type |-> "circle", diameter |-> 9,
                                          layers |-> <<"top", "bottom">>]>>)]]

\* definitions rich in pins and pads
PinDefs ==
    {[pins |-> MkPins(ls), pads |-> pt, layout |-> PlainLayout] :
        ls \in SeqsUpTo(PinLayouts, MaxPins), pt \in PadTables}

SomePad == CHOOSE pt \in PadTables : Len(pt["PAD1"]["shapes"]) = 1

\* definitions rich in layout sections, and some without a layout, pins or pads
LayoutDefs ==
    {[pins |-> MkPins(ls), pads |-> SomePad, layout |-> lay] :
        ls \in SeqsUpTo({[location |-> List2(10, 5), rotate |-> 90, pad |-> "PAD1"]}, 1),
        lay \in Layouts}
    \cup {[pins |-> MkPins(<<>>), pads |-> SomePad], [layout |-> PlainLayout], EmptyDict}

FootprintDefs == PinDefs \cup LayoutDefs

Init ==
    /\ defs \in {<<fp>> : fp \in FootprintDefs}
    /\ orig = defs
    /\ obj = [i \in Instances |-> 1]
    /\ pc = [i \in Instances |-> "idle"]
    /\ k = [i \in Instances |-> 1]
    /\ shapes = [i \in Instances |-> EmptyShapes]
    /\ err = [i \in Instances |-> "none"]
    /\ varied = "none"

\* two constructions from the same definition object, one after the other
Spec == Init /\ [][Next]_vars

OverrideSheets == {"soldermask", "solderpaste"}

\* is v an empty collection, {} or []
EmptyCollection(v) == v = PyDict(EmptyDict) \/ v = PyList(<<>>)

\* the declaration with its override for sheet set to alt (PyNone: key removed)
WithOverride(decl, sheet, alt) ==
    IF alt = PyNone
    THEN [key \in DOMAIN decl \ {sheet} |-> decl[key]]
    ELSE Put(decl, sheet, alt)

\* the definition with every empty override for sheet replaced by alt
Vary(fp, sheet, alt) ==
    [fp EXCEPT !["pads"]["PAD1"]["shapes"] =
        [j \in 1..Len(@) |->
            IF sheet \in DOMAIN @[j] /\ EmptyCollection(@[j][sheet])
            THEN WithOverride(@[j], sheet, alt) ELSE @[j]]]

Alternatives == {PyNone, PyDict(MaskB), PyList(<<MaskB, MaskA>>)}

SuppressingDecls ==
    {d \in PadShapeDecls : \E s \in OverrideSheets : s \in DOMAIN d /\ EmptyCollection(d[s])}

InitPair ==
    /\ defs \in {<<fp, Vary(fp, s, alt)>> :
                    fp \in {d \in PinDefs :
                              \A j \in 1..Len(d["pads"]["PAD1"]["shapes"]) :
                                  d["pads"]["PAD1"]["shapes"][j] \in SuppressingDecls},
                    s \in OverrideSheets, alt \in Alternatives}
    /\ orig = defs
    /\ obj = [i \in Instances |-> i]
    /\ pc = [i \in Instances |-> "idle"]
    /\ k = [i \in Instances |-> 1]
    /\ shapes = [i \in Instances |-> EmptyShapes]
    /\ err = [i \in Instances |-> "none"]
    /\ varied \in OverrideSheets
    /\ \E alt \in Alternatives : defs[2] = Vary(defs[1], varied, alt)

\* two constructions from two definitions that differ in one sheet's overrides
SpecPair == InitPair /\ [][Next]_vars

TypeOK ==
    /\ \A i \in Instances :
          /\ pc[i] \in {"idle", "pins", "pours", "shapes", "assembly", "done", "failed"}
          /\ err[i] \in {"none", "KeyError", "TypeError"}
          /\ DOMAIN shapes[i] = SheetNames
    /\ Len(defs) = Len(orig)

(* ------------------------ vocabulary of the claims --------------------- *)
PinsPassed(i) == pc[i] \in {"pours", "shapes", "assembly", "done"}

\* has the loop over the pins of instance i completed the iteration of pin n
Processed(i, n) == PinsPassed(i) \/ (pc[i] = "pins" /\ n < k[i])

\* the definition instance i is built from, as the caller wrote it
Written(i) == orig[obj[i]]

\* the pad shape declarations that pin n of a definition refers to
DeclsOfPin(fp, n) ==
    LET pad == PinsOf(fp)[n].layout["pad"]
    IN  IF pad \in DOMAIN PadsOf(fp) THEN Get(PadsOf(fp)[pad], "shapes", <<>>) ELSE <<>>

PadLayers(decl) == getExtendedLayerList(Get(decl, "layers", <<"top">>))

RangeOf(seq) == {seq[n] : n \in 1..Len(seq)}

Bucket(i, sheet, layer) == Get(shapes[i][sheet], layer, <<>>)

\* the shapes of a bucket that pin n, declaration j produced
PinShapes(i, sheet, layer, n, j) ==
    {x \in 1..Len(Bucket(i, sheet, layer)) :
        LET o == Bucket(i, sheet, layer)[x].origin
        IN  o[1] = 1 /\ o[2] = n /\ o[3] = j}

\* the shapes of a bucket that layout declaration j of the sheet produced
LayoutShapes(i, sheet, layer, j) ==
    {x \in 1..Len(Bucket(i, sheet, layer)) :
        LET o == Bucket(i, sheet, layer)[x].origin
        IN  o[1] = 3 /\ o[2] = j}

AllLayers == {"top", "bottom"} \cup RangeOf(InnerLayers)

AttrsOf(coll) ==
    [s \in SheetNames |->
        [l \in DOMAIN coll[s] |-> [n \in 1..Len(coll[s][l]) |-> Attrs(coll[s][l][n])]]]

\* the layout declarations of a sheet, when they are a list
LayoutDecls(fp, sheet) ==
    LET sec == SectionShapes(fp, sheet)
    IN  IF sec.found /\ Iterable(sec.shapes) THEN sec.shapes.v ELSE <<>>

\* the pins of a definition whose pad is not in the pad table
Dangling(fp) ==
    {n \in 1..Len(PinsOf(fp)) : PinsOf(fp)[n].layout["pad"] \notin DOMAIN PadsOf(fp)}

(* -------------------------------- claims ------------------------------- *)
\* C1: in a first construction, every pin whose pad has N declarations of L
\* layers each gets exactly N*L conductor shapes, each located at the pin's
\* location plus the declaration's written offset and rotated by the pin's
\* rotation plus the declaration's written rotation, also when several pins
\* share a pad.
C1_Placement ==
    PinsPassed(1) =>
        \A n \in 1..Len(PinsOf(Written(1))) :
            LET pin   == PinsOf(Written(1))[n].layout
                decls == DeclsOfPin(Written(1), n)
                ploc  == Get(pin, "location", List2(0, 0))
            IN  \A j \in 1..Len(decls) :
                    LET off == Get(decls[j], "location", List2(0, 0))
                    IN  \A layer \in AllLayers :
                        /\ Cardinality(PinShapes(1, "conductor", layer, n, j))
                             = IF layer \in RangeOf(PadLayers(decls[j])) THEN 1 ELSE 0
                        /\ \A x \in PinShapes(1, "conductor", layer, n, j) :
                             LET sh == Bucket(1, "conductor", layer)[x]
                             IN  /\ sh.location = <<ploc.x + off.x, ploc.y + off.y>>
                                 /\ sh.rotate = Get(pin, "rotate", 0)
                                                + Get(decls[j], "rotate", 0)

\* C2: once a construction has completed, the caller's definition has the
\* keys and values it had before construction.
C2_NoMutation == \A i \in Instances : pc[i] = "done" => defs = orig

\* C3: two constructions in succession from the same definition object
\* return structurally identical collections.
C3_Idempotent ==
    (Returned(1) /\ Returned(2) /\ obj[1] = obj[2])
        => AttrsOf(get_shapes(1)) = AttrsOf(get_shapes(2))

\* the size a default soldermask / solderpaste shape must have
ExpectedSize(decl, sheet) ==
    LET dims == [key \in DOMAIN decl \cap DimKeys |-> decl[key]]
        c    == cfg[sheet]
    IN  CASE decl["type"] = "rect" ->
               [dims  |-> [width  |-> decl["width"] + c["rect-buffer"],
                           height |-> decl["height"] + c["rect-buffer"]],
                scale |-> Get(decl, "scale", 1)]
          [] decl["type"] = "circle" ->
               [dims  |-> [diameter |-> decl["diameter"] + c["circle-buffer"]],
                scale |-> Get(decl, "scale", 1)]
          [] decl["type"] = "path" ->
               [dims |-> dims, scale |-> Get(decl, "scale", 1) * c["path-scale"]]
          [] OTHER -> [dims |-> dims, scale |-> Get(decl, "scale", 1)]

\* C4: a pad shape declaration without a soldermask (solderpaste) override
\* yields, for every pin processed and every layer it expands to, exactly one
\* soldermask (solderpaste) shape, whose size is the declared size with the
\* configured rule of its type applied once.
C4_DefaultDerivation ==
    \A i \in Instances :
        \A n \in 1..Len(PinsOf(Written(i))) :
            Processed(i, n) =>
                \A j \in 1..Len(DeclsOfPin(Written(i), n)) :
                    LET decl == DeclsOfPin(Written(i), n)[j]
                    IN  \A sheet \in OverrideSheets :
                            sheet \notin DOMAIN decl =>
                                \A layer \in RangeOf(PadLayers(decl)) :
                                    /\ Cardinality(PinShapes(i, sheet, layer, n, j)) = 1
                                    /\ \A x \in PinShapes(i, sheet, layer, n, j) :
                                         LET sh == Bucket(i, sheet, layer)[x]
                                         IN  [dims |-> sh.dims, scale |-> sh.scale]
                                               = ExpectedSize(decl, sheet)

\* a rect declaration without overrides, on two layers, used by two pins,
\* has been expanded
C4_Witness ==
    /\ pc[1] = "done"
    /\ \E n1, n2 \in 1..Len(PinsOf(Written(1))) :
          /\ n1 < n2
          /\ PinsOf(Written(1))[n1].layout["pad"] = PinsOf(Written(1))[n2].layout["pad"]
          /\ \E j \in 1..Len(DeclsOfPin(Written(1), n1)) :
                LET decl == DeclsOfPin(Written(1), n1)[j]
                IN  /\ decl["type"] = "rect"
                    /\ DOMAIN decl \cap OverrideSheets = {}
                    /\ Len(PadLayers(decl)) = 2
                    /\ PinShapes(1, "soldermask", "bottom", n2, j) # {}

OtherSheet(sheet) == IF sheet = "soldermask" THEN "solderpaste" ELSE "soldermask"

\* C5: a pad shape declaration whose soldermask (solderpaste) override is an
\* empty collection yields no soldermask (solderpaste) shape on any layer,
\* and the shapes of the other sheet are those a definition produces that
\* differs only in having another override, or none, in its place.
C5_Suppression ==
    /\ \A i \in Instances :
          \A n \in 1..Len(PinsOf(Written(i))) :
              Processed(i, n) =>
                  \A j \in 1..Len(DeclsOfPin(Written(i), n)) :
                      LET decl == DeclsOfPin(Written(i), n)[j]
                      IN  \A sheet \in OverrideSheets :
                              (sheet \in DOMAIN decl /\ EmptyCollection(decl[sheet])) =>
                                  \A layer \in AllLayers :
                                      PinShapes(i, sheet, layer, n, j) = {}
    /\ (Returned(1) /\ Returned(2) /\ varied \in OverrideSheets) =>
          get_shapes(1)[OtherSheet(varied)] = get_shapes(2)[OtherSheet(varied)]

\* both constructions returned, the varied sheet differs between them and
\* the other sheet holds shapes
C5_Witness ==
    /\ Returned(1) /\ Returned(2)
    /\ varied \in OverrideSheets
    /\ orig[1] # orig[2]
    /\ get_shapes(1)[varied] # get_shapes(2)[varied]
    /\ \E layer \in AllLayers : Bucket(1, OtherSheet(varied), layer) # <<>>

\* C6: in a first construction, a layout text declaration without a mirror
\* flag gives a mirrored shape on the bottom layer and an unmirrored shape on
\* every other layer, whatever the order of its layers.
C6_MirrorDefault ==
    pc[1] = "done" =>
        \A n \in 1..Len(sheets) :
            \A j \in 1..Len(LayoutDecls(Written(1), sheets[n])) :
                LET decl == LayoutDecls(Written(1), sheets[n])[j]
                IN  (decl["type"] = "text" /\ "mirror" \notin DOMAIN decl) =>
                        \A layer \in AllLayers :
                            \A x \in LayoutShapes(1, sheets[n], layer, j) :
                                Bucket(1, sheets[n], layer)[x].mirror = (layer = "bottom")

\* C7: when a pin names a pad that is not in the pad table, construction
\* stops at that pin with a KeyError, goes through no later pass and never
\* returns an instance to the caller.
C7_DanglingPad ==
    \A i \in Instances :
        LET bad == Dangling(defs[obj[i]])
        IN  bad # {} =>
                /\ ~Returned(i)
                /\ pc[i] \in {"idle", "pins", "failed"}
                /\ pc[i] = "failed" => err[i] = "KeyError"
                /\ pc[i] = "pins" => \A n \in bad : k[i] <= n

\* construction failed at a second pin, after the first pin wrote shapes
C7_Witness ==
    \E i \in Instances :
        /\ pc[i] = "failed" /\ err[i] = "KeyError"
        /\ 2 \in Dangling(defs[obj[i]])
        /\ shapes[i]["conductor"] # EmptyDict

\* C8: only a dangling pad aborts a construction: absent or malformed
\* optional layout sections never make it raise.
C8_OptionalSections ==
    \A i \in Instances : pc[i] = "failed" => err[i] = "KeyError"

\* C9: in a first construction, a layout text declaration with an explicit
\* mirror flag gives, on the bottom layer, a shape with that mirror value.
C9_ExplicitMirror ==
    pc[1] = "done" =>
        \A n \in 1..Len(sheets) :
            \A j \in 1..Len(LayoutDecls(Written(1), sheets[n])) :
                LET decl == LayoutDecls(Written(1), sheets[n])[j]
                IN  (decl["type"] = "text" /\ "mirror" \in DOMAIN decl) =>
                        \A x \in LayoutShapes(1, sheets[n], "bottom", j) :
                            Bucket(1, sheets[n], "bottom")[x].mirror
                                = TruthyFlag(decl["mirror"])

IsPrefix(s, t) == Len(s) <= Len(t) /\ \A n \in 1..Len(s) : s[n] = t[n]

\* lexicographic order of the history annotations (pass, index, index, index)
OriginLeq(a, b) ==
    \/ a[1] < b[1]
    \/ a[1] = b[1] /\ a[2] < b[2]
    \/ a[1] = b[1] /\ a[2] = b[2] /\ a[3] < b[3]
    \/ a[1] = b[1] /\ a[2] = b[2] /\ a[3] = b[3] /\ a[4] <= b[4]

InPassOrder(i) ==
    \A sheet \in SheetNames :
        \A layer \in DOMAIN shapes[i][sheet] :
            \A x, y \in 1..Len(shapes[i][sheet][layer]) :
                x < y => OriginLeq(shapes[i][sheet][layer][x].origin,
                                   shapes[i][sheet][layer][y].origin)

Extended(i) ==
    \A sheet \in SheetNames :
        \A layer \in DOMAIN shapes[i][sheet] :
            /\ layer \in DOMAIN shapes'[i][sheet]
            /\ IsPrefix(shapes[i][sheet][layer], shapes'[i][sheet][layer])

\* C10: every step extends each bucket at its end, and in every bucket the
\* shapes stand in the order pins, pours, sheet shapes, assembly, and within
\* a pass in the order of the declarations.
C10_AppendOnly ==
    /\ [][\A i \in Instances : Extended(i)]_vars
    /\ [](\A i \in Instances : InPassOrder(i))

\* a returned conductor bucket holds shapes of two pins and of the layout
C10_Witness ==
    \E i \in Instances :
        /\ Returned(i)
        /\ \E layer \in AllLayers :
              /\ PinShapes(i, "conductor", layer, 1, 1) # {}
              /\ PinShapes(i, "conductor", layer, 2, 1) # {}
              /\ LayoutShapes(i, "conductor", layer, 1) # {}

====
